---- MODULE Spec2Model ----
(***************************************************************************)
(* Model of the OwidData pipeline of src/app/data.py: preprocessing of one *)
(* raw OWID table (dtype coercion, flags, deduplication, sort), the left   *)
(* merge with the Natural Earth table, and the query helpers built on the  *)
(* merged table.                                                           *)
(*                                                                         *)
(* preprocess_datasets and merge_datasets treat every registry entry       *)
(* independently (each loop iteration reads only its own DataFrame), so    *)
(* the state holds the tables of one registry entry.                       *)
(*                                                                         *)
(* A nullable cell is a sequence: << >> is the missing value (NaN / <NA> / *)
(* None), <<v>> holds v.  Text cells hold strings; numbers are held in     *)
(* tenths (fixed point with one decimal digit), so 15 stands for 1.5.      *)
(***************************************************************************)
EXTENDS Integers, Sequences, FiniteSets, TLC

VARIABLES raw, datasets, world, merged, pc, error, answer

(* The download directory and one construction of the pipeline over it.    *)
VARIABLES cache, requested, phase, next_key, raw_datasets, obj, queried, failure

tableVars == <<raw, datasets, world, merged, pc, error, answer>>

ctorVars == <<cache, requested, phase, next_key, raw_datasets, obj, queried, failure>>

vars == <<raw, datasets, world, merged, pc, error, answer,
          cache, requested, phase, next_key, raw_datasets, obj, queried, failure>>

----------------------------------------------------------------------------
(* Bounds of the checked instances.                                        *)

MaxRows == 2
MaxQueryRows == 3
MaxN == 2

----------------------------------------------------------------------------
(* Nullable cells.                                                         *)

Null == << >>

Some(v) == <<v>>

IsNull(c) == c = Null

Val(c) == c[1]

----------------------------------------------------------------------------
(* Text: the code points of the strings that occur in the bounded inputs.  *)

Chars(s) ==
    CASE s = "France"   -> <<70, 114, 97, 110, 99, 101>>
      [] s = "Fiji"     -> <<70, 105, 106, 105>>
      [] s = "World"    -> <<87, 111, 114, 108, 100>>
      [] s = "Kosovo"   -> <<75, 111, 115, 111, 118, 111>>
      [] s = "Germany"  -> <<71, 101, 114, 109, 97, 110, 121>>
      [] s = "FRA"      -> <<70, 82, 65>>
      [] s = "FJI"      -> <<70, 74, 73>>
      [] s = "DEU"      -> <<68, 69, 85>>
      [] s = "XKX"      -> <<88, 75, 88>>
      [] s = "fra"      -> <<102, 114, 97>>
      [] s = "FR"       -> <<70, 82>>
      [] s = "FRAN"     -> <<70, 82, 65, 78>>
      [] s = "FR1"      -> <<70, 82, 49>>
      [] s = "OWI"      -> <<79, 87, 73>>
      [] s = "OWID_"    -> <<79, 87, 73, 68, 95>>
      [] s = "OWID_WRL" -> <<79, 87, 73, 68, 95, 87, 82, 76>>
      [] s = "owid_wrl" -> <<111, 119, 105, 100, 95, 119, 114, 108>>
      [] s = "-99"      -> <<45, 57, 57>>
      [] s = "2019"     -> <<50, 48, 49, 57>>
      [] s = "2020"     -> <<50, 48, 50, 48>>
      [] s = "2020.0"   -> <<50, 48, 50, 48, 46, 48>>
      [] s = "2020.5"   -> <<50, 48, 50, 48, 46, 53>>
      [] s = "n/a"      -> <<110, 47, 97>>
      [] s = "1.5"      -> <<49, 46, 53>>
      [] s = "2.5"      -> <<50, 46, 53>>
      [] s = "-0.2"     -> <<45, 48, 46, 50>>
      [] s = "3"        -> <<51>>
      [] s = "x"        -> <<120>>

IsDigit(c) == c >= 48 /\ c <= 57

IsAlpha(c) == (c >= 65 /\ c <= 90) \/ (c >= 97 /\ c <= 122)

RECURSIVE DigitsValue(_)
DigitsValue(ds) ==
    IF ds = << >> THEN 0
    ELSE 10 * DigitsValue(SubSeq(ds, 1, Len(ds) - 1)) + (ds[Len(ds)] - 48)

AllDigits(ds) == ds # << >> /\ \A i \in DOMAIN ds : IsDigit(ds[i])

(* Lexicographic order of two code-point sequences.                        *)
RECURSIVE CharsLess(_, _)
CharsLess(a, b) ==
    IF b = << >> THEN FALSE
    ELSE IF a = << >> THEN TRUE
    ELSE IF a[1] # b[1] THEN a[1] < b[1]
    ELSE CharsLess(Tail(a), Tail(b))

----------------------------------------------------------------------------
(* Class constants.                                                        *)

META_COLS == {"entity", "code", "year"}

KNOWN_NON_METRIC == {"entity", "code", "year", "is_aggregate", "is_mappable"}

----------------------------------------------------------------------------
(* preprocess_datasets: dtype coercion.                                    *)

(* pd.to_numeric(errors="coerce") of one cell: an optional sign, digits    *)
(* and at most one decimal digit give the number (in tenths); a missing    *)
(* cell and any other text give NaN.                                       *)
ToNumeric(cell) ==
    IF IsNull(cell) THEN Null
    ELSE LET cs   == Chars(Val(cell))
             neg  == cs # << >> /\ cs[1] = 45
             body == IF neg THEN Tail(cs) ELSE cs
             sign == IF neg THEN -1 ELSE 1
             dots == {i \in DOMAIN body : body[i] = 46}
         IN  IF dots = {}
             THEN IF AllDigits(body)
                  THEN Some(sign * 10 * DigitsValue(body))
                  ELSE Null
             ELSE IF Cardinality(dots) = 1
             THEN LET d  == CHOOSE i \in dots : TRUE
                      ip == SubSeq(body, 1, d - 1)
                      fp == SubSeq(body, d + 1, Len(body))
                  IN  IF AllDigits(ip) /\ Len(fp) = 1 /\ IsDigit(fp[1])
                      THEN Some(sign * (10 * DigitsValue(ip) + (fp[1] - 48)))
                      ELSE Null
             ELSE Null

(* .astype("Int64") accepts NaN and integral floats only.                  *)
CastableToInt64(num) == IsNull(num) \/ Val(num) % 10 = 0

AsInt64(num) == IF IsNull(num) THEN Null ELSE Some(Val(num) \div 10)

(* .astype(float) of the coerced metric keeps the number.                  *)
AsFloat(num) == num

----------------------------------------------------------------------------
(* preprocess_datasets: boolean flags.                                     *)

StartsWith(cs, prefix) ==
    Len(cs) >= Len(prefix) /\ SubSeq(cs, 1, Len(prefix)) = prefix

(* str.fullmatch(r"[A-Za-z]{3}")                                           *)
FullMatchIso(cs) == Len(cs) = 3 /\ \A i \in 1..3 : IsAlpha(cs[i])

IsAggregateAnyCase(code) ==
    IsNull(code)
    \/ StartsWith(Chars(Val(code)), Chars("OWID_"))
    \/ StartsWith(Chars(Val(code)), Chars("owid_wrl"))

IsAggregate(code) ==
    IsNull(code) \/ StartsWith(Chars(Val(code)), Chars("OWID_"))

IsoLike(code) == ~IsNull(code) /\ FullMatchIso(Chars(Val(code)))

EnforceDtypes(r) ==
    [entity |-> r.entity,
     code   |-> r.code,
     year   |-> AsInt64(ToNumeric(r.year)),
     metric |-> AsFloat(ToNumeric(r.metric))]

AddFlags(r) ==
    [entity       |-> r.entity,
     code         |-> r.code,
     year         |-> r.year,
     metric       |-> r.metric,
     is_aggregate |-> IsAggregate(r.code),
     is_mappable  |-> ~IsAggregate(r.code) /\ IsoLike(r.code)]

----------------------------------------------------------------------------
(* preprocess_datasets: deduplication and sort.                            *)

(* The rows of s at the positions idx, in their order in s.                *)
RECURSIVE TakeRows(_, _)
TakeRows(s, idx) ==
    IF s = << >> THEN << >>
    ELSE LET front == TakeRows(SubSeq(s, 1, Len(s) - 1), idx)
         IN  IF Len(s) \in idx THEN Append(front, s[Len(s)]) ELSE front

DupKey(r) == <<r.entity, r.code, r.year>>

DropDuplicatesKeepLast(rows) ==
    TakeRows(rows, {i \in DOMAIN rows :
                      \A j \in (i + 1)..Len(rows) : DupKey(rows[j]) # DupKey(rows[i])})

(* drop_duplicates(subset=[entity, code, year], keep="first"); missing     *)
(* values compare equal to each other.                                     *)
DropDuplicates(rows) ==
    TakeRows(rows, {i \in DOMAIN rows :
                      \A j \in 1..(i - 1) : DupKey(rows[j]) # DupKey(rows[i])})

TextLessNaFirst(a, b) ==
    IF IsNull(b) THEN FALSE
    ELSE IF IsNull(a) THEN TRUE
    ELSE CharsLess(Chars(Val(a)), Chars(Val(b)))

(* Order of two cells of a sort key with na_position="last".               *)
TextLess(a, b) ==
    IF IsNull(a) THEN FALSE
    ELSE IF IsNull(b) THEN TRUE
    ELSE CharsLess(Chars(Val(a)), Chars(Val(b)))

NumLess(a, b) ==
    IF IsNull(a) THEN FALSE
    ELSE IF IsNull(b) THEN TRUE
    ELSE Val(a) < Val(b)

(* by=["is_aggregate", "code", "entity", "year"]                           *)
RowLess(a, b) ==
    IF a.is_aggregate # b.is_aggregate THEN b.is_aggregate
    ELSE IF a.code # b.code THEN TextLess(a.code, b.code)
    ELSE IF a.entity # b.entity THEN TextLess(a.entity, b.entity)
    ELSE NumLess(a.year, b.year)

(* Stable insertion of x behind every row that does not sort after it.     *)
InsertRow(sorted, x) ==
    LET p == Cardinality({i \in DOMAIN sorted : ~RowLess(x, sorted[i])})
    IN  SubSeq(sorted, 1, p) \o <<x>> \o SubSeq(sorted, p + 1, Len(sorted))

RECURSIVE SortValues(_)
SortValues(rows) ==
    IF rows = << >> THEN << >>
    ELSE InsertRow(SortValues(SubSeq(rows, 1, Len(rows) - 1)), rows[Len(rows)])

(* The column assignments of lines 262-282, row by row.                    *)
Typed(rows) == [i \in DOMAIN rows |-> EnforceDtypes(rows[i])]

Flagged(rows) == [i \in DOMAIN rows |-> AddFlags(rows[i])]

NoError == [type |-> "none", detail |-> {}]

(* The caller's table after the column assignments of lines 262-282 were   *)
(* made on out: out is df.copy(deep=True), so they do not reach df.        *)
InputAfter(df, out) == df

(* preprocess_datasets, lines 227-303.                                     *)
Preprocess ==
    /\ pc = "preprocess"
    /\ LET missing    == META_COLS \ raw.columns
           candidates == raw.columns \ KNOWN_NON_METRIC
       IN  IF missing # {}
           THEN /\ pc' = "failed"
                /\ error' = [type |-> "ValueError", detail |-> missing]
                /\ UNCHANGED datasets
           ELSE IF Cardinality(candidates) # 1
           THEN /\ pc' = "failed"
                /\ error' = [type |-> "ValueError", detail |-> candidates]
                /\ UNCHANGED datasets
           ELSE IF \E i \in DOMAIN raw.rows :
                      ~CastableToInt64(ToNumeric(raw.rows[i].year))
           THEN /\ pc' = "failed"
                /\ error' = [type |-> "TypeError", detail |-> {"year"}]
                /\ UNCHANGED datasets
           ELSE /\ pc' = "load_map"
                /\ error' = NoError
                /\ datasets' = SortValues(DropDuplicates(Flagged(Typed(raw.rows))))
    /\ raw' = InputAfter(raw, [columns |-> raw.columns,
                                 rows |-> Typed(raw.rows)])
    /\ UNCHANGED <<world, merged, answer>>
    /\ UNCHANGED ctorVars

----------------------------------------------------------------------------
(* Bounded inputs.                                                         *)

StdColumns == {"entity", "code", "year", "metric"}

OtherColumnSets ==
    {{"entity", "code", "metric"},
     {"code", "metric"},
     {"entity", "code", "year"},
     {"entity", "code", "year", "metric", "metric_2"},
     {"code", "metric", "metric_2"},
     {"entity", "code", "year", "metric", "is_aggregate", "is_mappable"}}

(* Raw rows for deduplication and sort: every combination of the cells.    *)
NormalizeRows ==
    [entity : {Some("Fiji"), Some("France"), Null},
     code   : {Some("FRA"), Some("OWID_WRL"), Null},
     year   : {Some("2019"), Some("2020"), Some("2020.0"), Some("n/a")},
     metric : {Some("1.5"), Some("2.5")}]

(* Raw rows for the flag rules: one observation per shape of code.         *)
FlagCodes ==
    {Some("FRA"), Some("fra"), Some("FR"), Some("FRAN"), Some("FR1"),
     Some("-99"), Some("OWI"), Some("OWID_"), Some("OWID_WRL"),
     Some("owid_wrl"), Null}

FlagRows ==
    [entity : {Some("France")},
     code   : FlagCodes,
     year   : {Some("2020")},
     metric : {Some("1.5")}]

(* Raw rows for the cell coercion: one country, every shape of year and    *)
(* metric cell (integer, integral and fractional decimal, other text,      *)
(* empty).                                                                 *)
CoerceRows ==
    [entity : {Some("France")},
     code   : {Some("FRA")},
     year   : {Some("2020"), Some("2020.0"), Some("2020.5"), Some("n/a"), Null},
     metric : {Some("1.5"), Some("x"), Null}]

(* Raw rows for the joined view and the queries.                           *)
EntityOf(code) ==
    CASE code = "FRA" -> "France"
      [] code = "FJI" -> "Fiji"
      [] code = "DEU" -> "Germany"

(* Three countries with a metric or an unparseable metric in each of two   *)
(* years, and one row of the world aggregate.                              *)
QueryRows ==
    {[entity |-> Some(EntityOf(c)), code |-> Some(c), year |-> Some(ym[1]), metric |-> Some(ym[2])] :
        c \in {"FRA", "FJI", "DEU"},
        ym \in {<<"2019", "1.5">>, <<"2019", "x">>,
                <<"2020", "1.5">>, <<"2020", "2.5">>, <<"2020", "x">>}}
    \cup {[entity |-> Some("World"), code |-> Some("OWID_WRL"),
            year |-> Some("2020"), metric |-> Some("-0.2")]}

Polygon == Some("polygon")

(* Natural Earth tables: one with a polygon for every country, one where   *)
(* Germany is absent and Fiji has no geometry.                             *)
WorldTables ==
    {<<[ISO_A3_EH |-> Some("FRA"), REGION_UN |-> Some("Europe"), geometry |-> Polygon],
       [ISO_A3_EH |-> Some("FJI"), REGION_UN |-> Some("Oceania"), geometry |-> Polygon],
       [ISO_A3_EH |-> Some("DEU"), REGION_UN |-> Some("Europe"), geometry |-> Polygon],
       [ISO_A3_EH |-> Some("-99"), REGION_UN |-> Some("Asia"), geometry |-> Polygon]>>,
     <<[ISO_A3_EH |-> Some("FRA"), REGION_UN |-> Some("Europe"), geometry |-> Polygon],
       [ISO_A3_EH |-> Some("FJI"), REGION_UN |-> Some("Oceania"), geometry |-> Null],
       [ISO_A3_EH |-> Some("-99"), REGION_UN |-> Some("Asia"), geometry |-> Polygon]>>}

QueryYears == {2019, 2020}

QueryCodes == {"FRA", "FJI", "DEU", "XKX"}

TimeseriesCodes == QueryCodes \cup {"OWID_WRL"}

----------------------------------------------------------------------------
(* merge_datasets.                                                         *)

Mappable(rows) == SelectSeq(rows, LAMBDA r : r.is_mappable)

JoinedRow(w, r) ==
    [ISO_A3_EH    |-> w.ISO_A3_EH,
     REGION_UN    |-> w.REGION_UN,
     geometry     |-> w.geometry,
     entity       |-> r.entity,
     code         |-> r.code,
     year         |-> r.year,
     metric       |-> r.metric,
     is_aggregate |-> Some(r.is_aggregate),
     is_mappable  |-> Some(r.is_mappable)]

(* A left row without a match keeps its own columns; the right columns     *)
(* are missing.                                                            *)
UnmatchedRow(w) ==
    [ISO_A3_EH    |-> w.ISO_A3_EH,
     REGION_UN    |-> w.REGION_UN,
     geometry     |-> w.geometry,
     entity       |-> Null,
     code         |-> Null,
     year         |-> Null,
     metric       |-> Null,
     is_aggregate |-> Null,
     is_mappable  |-> Null]

RECURSIVE InnerMerge(_, _)
InnerMerge(left, right) ==
    IF left = << >> THEN << >>
    ELSE LET w       == left[Len(left)]
             matches == SelectSeq(right, LAMBDA r : r.code = w.ISO_A3_EH)
         IN  InnerMerge(SubSeq(left, 1, Len(left) - 1), right)
             \o [i \in DOMAIN matches |-> JoinedRow(w, matches[i])]

RECURSIVE LookupMerge(_, _)
LookupMerge(left, right) ==
    IF left = << >> THEN << >>
    ELSE LET w       == left[Len(left)]
             matches == SelectSeq(right, LAMBDA r : r.code = w.ISO_A3_EH)
         IN  LookupMerge(SubSeq(left, 1, Len(left) - 1), right)
             \o (IF matches = << >>
                 THEN <<UnmatchedRow(w)>>
                 ELSE <<JoinedRow(w, matches[1])>>)

(* world.merge(mappable, left_on="ISO_A3_EH", right_on="code", how="left") *)
RECURSIVE LeftMerge(_, _)
LeftMerge(left, right) ==
    IF left = << >> THEN << >>
    ELSE LET w       == left[Len(left)]
             matches == SelectSeq(right, LAMBDA r : r.code = w.ISO_A3_EH)
         IN  LeftMerge(SubSeq(left, 1, Len(left) - 1), right)
             \o (IF matches = << >>
                 THEN <<UnmatchedRow(w)>>
                 ELSE [i \in DOMAIN matches |-> JoinedRow(w, matches[i])])

----------------------------------------------------------------------------
(* Query helpers.                                                          *)

SortByKeyDescending(rows, keys) ==
    LET Equal(a, b) == ~NumLess(a, b) /\ ~NumLess(b, a)
        Pos(i) == Cardinality({j \in DOMAIN rows : NumLess(keys[i], keys[j])})
                  + Cardinality({j \in 1..i : Equal(keys[j], keys[i])})
    IN  [p \in DOMAIN rows |-> rows[CHOOSE i \in DOMAIN rows : Pos(i) = p]]

(* Stable ascending order of rows by the nullable numbers keys, missing    *)
(* keys last: the row at position i moves behind the rows with a smaller   *)
(* key and behind the earlier rows with an equal key.                      *)
SortByKey(rows, keys) ==
    LET Equal(a, b) == ~NumLess(a, b) /\ ~NumLess(b, a)
        Pos(i) == Cardinality({j \in DOMAIN rows : NumLess(keys[j], keys[i])})
                  + Cardinality({j \in 1..i : Equal(keys[j], keys[i])})
    IN  [p \in DOMAIN rows |-> rows[CHOOSE i \in DOMAIN rows : Pos(i) = p]]

Negated(c) == IF IsNull(c) THEN Null ELSE Some(0 - Val(c))

Head_n(rows, n) == SubSeq(rows, 1, IF n < Len(rows) THEN n ELSE Len(rows))

(* DataFrame.nlargest(n, col) / nsmallest(n, col), keep="first".           *)
NLargest(rows, n) ==
    Head_n(SortByKey(rows, [i \in DOMAIN rows |-> Negated(rows[i].metric)]), n)

NSmallest(rows, n) ==
    Head_n(SortByKey(rows, [i \in DOMAIN rows |-> rows[i].metric]), n)

RankFirst(vals) ==
    LET keys == [i \in DOMAIN vals |-> Negated(vals[i])]
    IN  [i \in DOMAIN vals |->
            Cardinality({j \in DOMAIN vals : NumLess(keys[j], keys[i])})
            + Cardinality({j \in 1..i : keys[j] = keys[i]})]

(* Series.rank(ascending=False, method="min"): the first position of the   *)
(* value in the descending order of the values.                            *)
RankMin(vals) ==
    LET desc == SortByKey(vals, [i \in DOMAIN vals |-> Negated(vals[i])])
    IN  [i \in DOMAIN vals |->
            CHOOSE p \in DOMAIN desc :
               /\ desc[p] = vals[i]
               /\ \A q \in 1..(p - 1) : desc[q] # vals[i]]

RECURSIVE SortedList(_)
SortedList(S) ==
    IF S = {} THEN << >>
    ELSE LET m == CHOOSE x \in S : \A y \in S : x <= y
         IN  <<m>> \o SortedList(S \ {m})

(* gdf.dropna(subset=[val_col, "geometry"])                                *)
DropNa(rows) ==
    SelectSeq(rows, LAMBDA r : ~IsNull(r.metric) /\ ~IsNull(r.geometry))

CountryDataKeepNa(gdf, year) == SelectSeq(gdf, LAMBDA r : r.year = Some(year))

(* country_data, lines 421-426.                                            *)
CountryData(gdf, year) ==
    DropNa(SelectSeq(gdf, LAMBDA r : r.year = Some(year)))

AvailableYearsKeepNa(gdf) ==
    SortedList({Val(gdf[i].year) : i \in {j \in DOMAIN gdf : ~IsNull(gdf[j].year)}})

(* available_years, lines 395-399.                                         *)
AvailableYearsOf(gdf) ==
    LET valid == DropNa(gdf)
    IN  SortedList({Val(valid[i].year) :
                      i \in {j \in DOMAIN valid : ~IsNull(valid[j].year)}})

CountryTimeseriesAnyRow(df, iso_code) ==
    LET sel == SelectSeq(df, LAMBDA r : r.code = Some(iso_code))
    IN  SortByKey(sel, [i \in DOMAIN sel |-> sel[i].year])

(* country_timeseries, lines 486-489.                                      *)
CountryTimeseries(df, iso_code) ==
    LET sel == SelectSeq(df, LAMBDA r : r.is_mappable /\ r.code = Some(iso_code))
    IN  SortByKey(sel, [i \in DOMAIN sel |-> sel[i].year])

Labelled(rows, kind, n) ==
    [i \in DOMAIN rows |->
        [entity    |-> rows[i].entity,
         code      |-> rows[i].code,
         metric    |-> rows[i].metric,
         REGION_UN |-> rows[i].REGION_UN,
         group     |-> <<kind, n>>]]

(* top_bottom_countries, lines 449-464.                                    *)
TopBottomOf(gdf, year, n) ==
    LET cdf == CountryData(gdf, year)
    IN  Labelled(NLargest(cdf, n), "Top", n)
        \o Labelled(NSmallest(cdf, n), "Bottom", n)

(* Float subtraction; NaN propagates.                                      *)
FloatSub(a, b) == IF IsNull(a) \/ IsNull(b) THEN Null ELSE Some(Val(a) - Val(b))

(* country_details, lines 515-546; << >> is None.                          *)
CountryDetailsOf(df, gdf, iso_code, year) ==
    LET cdf  == CountryData(gdf, year)
        hits == {i \in DOMAIN cdf : cdf[i].code = Some(iso_code)}
    IN  IF hits = {} THEN << >>
        ELSE LET first  == CHOOSE i \in hits : \A j \in hits : i <= j
                 row    == cdf[first]
                 ranked == RankMin([i \in DOMAIN cdf |-> cdf[i].metric])
                 ts     == CountryTimeseries(df, iso_code)
                 prev   == SelectSeq(ts, LAMBDA r : r.year = Some(year - 1))
             IN  <<[entity |-> row.entity,
                    region |-> row.REGION_UN,
                    value  |-> row.metric,
                    rank   |-> ranked[first],
                    delta  |-> IF prev = << >> THEN << >>
                               ELSE Some(FloatSub(row.metric, prev[1].metric))]>>

(* available_years *)
AvailableYears ==
    /\ pc = "ready"
    /\ answer.op = "none"
    /\ answer' = [op |-> "available_years", out |-> AvailableYearsOf(merged)]
    /\ UNCHANGED <<raw, datasets, world, merged, pc, error>>
    /\ UNCHANGED ctorVars

(* top_bottom_countries *)
TopBottomCountries ==
    /\ pc = "ready"
    /\ answer.op = "none"
    /\ \E year \in QueryYears, n \in 0..MaxN :
          answer' = [op |-> "top_bottom_countries", year |-> year, n |-> n,
                     out |-> TopBottomOf(merged, year, n)]
    /\ UNCHANGED <<raw, datasets, world, merged, pc, error>>
    /\ UNCHANGED ctorVars

(* country_details *)
CountryDetails ==
    /\ pc = "ready"
    /\ answer.op = "none"
    /\ \E iso_code \in QueryCodes, year \in QueryYears :
          answer' = [op |-> "country_details", iso_code |-> iso_code,
                     year |-> year,
                     out |-> CountryDetailsOf(datasets, merged, iso_code, year)]
    /\ UNCHANGED <<raw, datasets, world, merged, pc, error>>
    /\ UNCHANGED ctorVars

(* country_timeseries *)
CountryTimeseriesQuery ==
    /\ pc = "ready"
    /\ answer.op = "none"
    /\ \E iso_code \in TimeseriesCodes :
          answer' = [op |-> "country_timeseries", iso_code |-> iso_code,
                     out |-> CountryTimeseries(datasets, iso_code)]
    /\ UNCHANGED <<raw, datasets, world, merged, pc, error>>
    /\ UNCHANGED ctorVars

(* The caller takes the returned value (main.py renders it); the next      *)
(* query starts from there.                                                *)
Render ==
    /\ pc = "ready"
    /\ answer.op # "none"
    /\ answer' = [op |-> "none"]
    /\ UNCHANGED <<raw, datasets, world, merged, pc, error>>
    /\ UNCHANGED ctorVars

----------------------------------------------------------------------------
(* Pipeline construction, __init__ lines 111-126.                          *)

(* _load_map: the table read from the Natural Earth archive.               *)
LoadMap ==
    /\ pc = "load_map"
    /\ \E w \in WorldTables : world' = w
    /\ pc' = "merge"
    /\ UNCHANGED <<raw, datasets, merged, error, answer>>
    /\ UNCHANGED ctorVars

(* merge_datasets, lines 325-337.                                          *)
MergeDatasets ==
    /\ pc = "merge"
    /\ merged' = LeftMerge(world, Mappable(datasets))
    /\ pc' = "ready"
    /\ UNCHANGED <<raw, datasets, world, error, answer>>
    /\ UNCHANGED ctorVars

----------------------------------------------------------------------------
(* The download directory and the constructor's steps over it.             *)

(* DATASET_URLS, lines 56-82, in dictionary order.                         *)
DATASET_URLS ==
    <<"forest_change", "deforestation", "land_protected",
      "land_degraded", "marine_protected">>

Keys == {DATASET_URLS[k] : k \in DOMAIN DATASET_URLS}

MapFile == "ne_110m_admin_0_countries.zip"

(* A cache file is named by its dataset key ('{key}.csv') or is the map    *)
(* archive.                                                                *)
Files == Keys \cup {MapFile}

(* A file's body is << >> when it holds zero bytes and <<header>> when it  *)
(* holds a complete response body with that header.                        *)
Absent == [exists |-> FALSE, body |-> << >>]

CsvBodies == {StdColumns, {"entity", "year", "metric"}}

MapColumns == {"ISO_A3_EH", "REGION_UN", "geometry"}

(* What the network does with one request: urlopen raises, or the          *)
(* connection opens and response.read() raises, or the body arrives.       *)
Responses(bodies) ==
    {[kind |-> "refused", body |-> << >>],
     [kind |-> "truncated", body |-> << >>]}
    \cup {[kind |-> "ok", body |-> <<b>>] : b \in bodies}

ExistsNever(c, f) == FALSE

(* filepath.exists(), lines 146 and 170.                                   *)
Exists(c, f) == c[f].exists

(* Lines 146-152 and 170-177: nothing when the file exists; otherwise      *)
(* urlopen, then open(filepath, "wb") creates the file, then the body is   *)
(* read and written.                                                       *)
Fetch(c, f, o) ==
    IF Exists(c, f)
    THEN [cache |-> c, request |-> {}, raised |-> "none"]
    ELSE IF o.kind = "refused"
    THEN [cache |-> c, request |-> {f}, raised |-> "URLError"]
    ELSE [cache   |-> [c EXCEPT ![f] = [exists |-> TRUE, body |-> o.body]],
          request |-> {f},
          raised  |-> IF o.kind = "truncated" THEN "IncompleteRead" ELSE "none"]

(* The header checks of preprocess_datasets, lines 237-259.                *)
HeaderAccepted(columns) ==
    /\ META_COLS \ columns = {}
    /\ Cardinality(columns \ KNOWN_NON_METRIC) = 1

CleanedSkipping(raw_dfs) ==
    [raised |-> FALSE,
     keys   |-> {DATASET_URLS[k] : k \in {j \in DOMAIN raw_dfs : HeaderAccepted(raw_dfs[j])}}]

(* preprocess_datasets over the whole dictionary, lines 227-303: the first *)
(* rejected dataset raises and nothing is returned.                        *)
Cleaned(raw_dfs) ==
    IF \E k \in DOMAIN raw_dfs : ~HeaderAccepted(raw_dfs[k])
    THEN [raised |-> TRUE, keys |-> {}]
    ELSE [raised |-> FALSE, keys |-> {DATASET_URLS[k] : k \in DOMAIN raw_dfs}]

NoObject == [datasets |-> {}, world |-> FALSE, merged |-> {}]

(* OwidData(...) is called: lines 111-112, an existing directory is kept.  *)
StartConstruction ==
    /\ phase \in {"start", "ready", "failed"}
    /\ phase' = "download"
    /\ next_key' = 1
    /\ raw_datasets' = << >>
    /\ obj' = NoObject
    /\ queried' = "none"
    /\ failure' = "none"
    /\ requested' = {}
    /\ UNCHANGED cache
    /\ UNCHANGED tableVars

(* One iteration of the loop of download_datasets, lines 143-154.          *)
DownloadDataset ==
    /\ phase = "download"
    /\ \E o \in Responses(CsvBodies) :
          LET name == DATASET_URLS[next_key]
              r    == Fetch(cache, name, o)
          IN  /\ cache' = r.cache
              /\ requested' = requested \cup r.request
              /\ IF r.raised # "none"
                 THEN /\ phase' = "failed"
                      /\ failure' = r.raised
                      /\ UNCHANGED <<next_key, raw_datasets>>
                 ELSE IF r.cache[name].body = << >>
                 THEN /\ phase' = "failed"
                      /\ failure' = "EmptyDataError"
                      /\ UNCHANGED <<next_key, raw_datasets>>
                 ELSE /\ raw_datasets' = Append(raw_datasets, r.cache[name].body[1])
                      /\ next_key' = IF next_key = Len(DATASET_URLS) THEN next_key ELSE next_key + 1
                      /\ phase' = IF next_key = Len(DATASET_URLS) THEN "preprocess" ELSE "download"
                      /\ UNCHANGED failure
    /\ UNCHANGED <<obj, queried>>
    /\ UNCHANGED tableVars

(* self.datasets = self.preprocess_datasets(raw_datasets), lines 118-120.  *)
PreprocessDatasets ==
    /\ phase = "preprocess"
    /\ LET c == Cleaned(raw_datasets)
       IN  IF c.raised
           THEN /\ phase' = "failed"
                /\ failure' = "ValueError"
                /\ UNCHANGED obj
           ELSE /\ phase' = "load_map"
                /\ obj' = [obj EXCEPT !.datasets = c.keys]
                /\ UNCHANGED failure
    /\ UNCHANGED <<cache, requested, next_key, raw_datasets, queried>>
    /\ UNCHANGED tableVars

(* self.world = self._load_map(), lines 123 and 168-179.                   *)
LoadMapFile ==
    /\ phase = "load_map"
    /\ \E o \in Responses({MapColumns}) :
          LET r == Fetch(cache, MapFile, o)
          IN  /\ cache' = r.cache
              /\ requested' = requested \cup r.request
              /\ IF r.raised # "none"
                 THEN /\ phase' = "failed"
                      /\ failure' = r.raised
                      /\ UNCHANGED obj
                 ELSE IF r.cache[MapFile].body = << >>
                 THEN /\ phase' = "failed"
                      /\ failure' = "DataSourceError"
                      /\ UNCHANGED obj
                 ELSE /\ phase' = "merge"
                      /\ obj' = [obj EXCEPT !.world = TRUE]
                      /\ UNCHANGED failure
    /\ UNCHANGED <<next_key, raw_datasets, queried>>
    /\ UNCHANGED tableVars

(* self.merged = self.merge_datasets(), lines 126 and 325-337; __init__    *)
(* returns and the caller holds the instance.                              *)
MergeAndReturn ==
    /\ phase = "merge"
    /\ obj' = [obj EXCEPT !.merged = obj.datasets]
    /\ phase' = "ready"
    /\ UNCHANGED <<cache, requested, next_key, raw_datasets, queried, failure>>
    /\ UNCHANGED tableVars

(* A query on the instance the caller holds: self.datasets[key] or         *)
(* self.merged[key], lines 367, 395, 421, 486.                             *)
Query ==
    /\ phase = "ready"
    /\ \E key \in Keys :
          /\ key \in obj.datasets \cap obj.merged
          /\ queried' = key
    /\ UNCHANGED <<cache, requested, phase, next_key, raw_datasets, obj, failure>>
    /\ UNCHANGED tableVars

InitConstruction ==
    /\ cache = [f \in Files |-> Absent]
    /\ requested = {}
    /\ phase = "start"
    /\ next_key = 1
    /\ raw_datasets = << >>
    /\ obj = NoObject
    /\ queried = "none"
    /\ failure = "none"

SeqsUpTo(S, n) == UNION {[1..k -> S] : k \in 0..n}

InitRest ==
    /\ datasets = << >>
    /\ world = << >>
    /\ merged = << >>
    /\ pc = "preprocess"
    /\ error = NoError
    /\ answer = [op |-> "none"]
    /\ InitConstruction

Init ==
    /\ raw \in [columns : {StdColumns}, rows : SeqsUpTo(QueryRows, MaxQueryRows)]
    /\ InitRest

Next ==
    \/ Preprocess
    \/ LoadMap
    \/ MergeDatasets
    \/ AvailableYears
    \/ TopBottomCountries
    \/ CountryDetails
    \/ CountryTimeseriesQuery
    \/ Render

Spec == Init /\ [][Next]_vars

InitNormalize ==
    /\ \/ raw \in [columns : {StdColumns}, rows : SeqsUpTo(NormalizeRows, MaxRows)]
       \/ raw \in [columns : OtherColumnSets, rows : {<< >>}]
    /\ InitRest

NextNormalize == Preprocess

SpecNormalize == InitNormalize /\ [][NextNormalize]_vars

InitFlags ==
    /\ raw \in [columns : {StdColumns}, rows : SeqsUpTo(FlagRows, MaxRows)]
    /\ InitRest

SpecFlags == InitFlags /\ [][NextNormalize]_vars

(* Tables of every header with every shape of cell; the cells of a column  *)
(* that the header lacks are not read.                                     *)
InitCoerce ==
    /\ raw \in [columns : {StdColumns} \cup OtherColumnSets,
                rows : SeqsUpTo(CoerceRows, MaxRows)]
    /\ InitRest

SpecCoerce == InitCoerce /\ [][NextNormalize]_vars

(* Constructions, one after another, over one download directory that      *)
(* starts empty.                                                           *)
InitConstruct ==
    /\ raw = [columns |-> StdColumns, rows |-> << >>]
    /\ InitRest

NextConstruct ==
    \/ StartConstruction
    \/ DownloadDataset
    \/ PreprocessDatasets
    \/ LoadMapFile
    \/ MergeAndReturn
    \/ Query

SpecConstruct == InitConstruct /\ [][NextConstruct]_vars

----------------------------------------------------------------------------
(* Properties.                                                             *)

MinOf(S) == CHOOSE x \in S : \A y \in S : x <= y

(* The (entity, code, year) key of a raw row after year coercion.          *)
CoercedKey(r) == <<r.entity, r.code, AsInt64(ToNumeric(r.year))>>

(* C1: after preprocessing no two rows of the normalized table share an    *)
(* (entity, code, year) key, every key of the raw input is still present,  *)
(* and the surviving row of a key carries the metric of the first raw row  *)
(* with that key.                                                          *)
C1_UniqueKeysFirstKept ==
    pc = "load_map" =>
       /\ \A i, j \in DOMAIN datasets :
             i # j => <<datasets[i].entity, datasets[i].code, datasets[i].year>>
                      # <<datasets[j].entity, datasets[j].code, datasets[j].year>>
       /\ \A k \in DOMAIN raw.rows :
             \E i \in DOMAIN datasets :
                <<datasets[i].entity, datasets[i].code, datasets[i].year>>
                = CoercedKey(raw.rows[k])
       /\ \A i \in DOMAIN datasets :
             LET same == {k \in DOMAIN raw.rows :
                             CoercedKey(raw.rows[k])
                             = <<datasets[i].entity, datasets[i].code, datasets[i].year>>}
             IN  /\ same # {}
                 /\ datasets[i].metric = ToNumeric(raw.rows[MinOf(same)].metric)

(* Two raw rows that differ in their year text and metric but share the    *)
(* key after coercion were reduced to the first one.                       *)
C1_Witness ==
    /\ pc = "load_map"
    /\ Len(raw.rows) = 2
    /\ Len(datasets) = 1
    /\ raw.rows[1].year # raw.rows[2].year
    /\ raw.rows[1].metric # raw.rows[2].metric
    /\ datasets[1].metric = ToNumeric(raw.rows[1].metric)

OwidPrefixed(cs) ==
    /\ Len(cs) >= 5
    /\ cs[1] = 79 /\ cs[2] = 87 /\ cs[3] = 73 /\ cs[4] = 68 /\ cs[5] = 95

ThreeLetters(cs) ==
    /\ Len(cs) = 3
    /\ \A i \in DOMAIN cs : cs[i] \in (65..90) \cup (97..122)

(* C2: is_aggregate holds exactly for a missing code and a code starting   *)
(* with "OWID_"; is_mappable holds exactly for a non-aggregate code of     *)
(* three ASCII letters; the two flags are never both set; "FRA" is         *)
(* mappable and "OWID_WRL" is an aggregate.                                *)
C2_FlagRules ==
    pc = "load_map" =>
       \A i \in DOMAIN datasets :
          LET r == datasets[i]
          IN  /\ r.is_aggregate <=>
                    (r.code = << >> \/ OwidPrefixed(Chars(r.code[1])))
              /\ r.is_mappable <=>
                    (~r.is_aggregate /\ r.code # << >> /\ ThreeLetters(Chars(r.code[1])))
              /\ ~(r.is_aggregate /\ r.is_mappable)
              /\ r.code = <<"FRA">> => (~r.is_aggregate /\ r.is_mappable)
              /\ r.code = <<"OWID_WRL">> => (r.is_aggregate /\ ~r.is_mappable)

(* A normalized table holding a lower-case "owid_" code (no aggregate) and *)
(* a lower-case three-letter code (mappable).                              *)
C2_Witness ==
    /\ pc = "load_map"
    /\ \E i, j \in DOMAIN datasets :
          /\ datasets[i].code = <<"owid_wrl">> /\ ~datasets[i].is_aggregate
          /\ datasets[j].code = <<"fra">> /\ datasets[j].is_mappable

(* C3: the merged table has at least as many rows as the world table and   *)
(* every world row occurs in it.                                           *)
C3_LeftAnchor ==
    pc = "ready" =>
       /\ Len(merged) >= Len(world)
       /\ \A g \in DOMAIN world :
             \E i \in DOMAIN merged :
                /\ merged[i].ISO_A3_EH = world[g].ISO_A3_EH
                /\ merged[i].REGION_UN = world[g].REGION_UN
                /\ merged[i].geometry = world[g].geometry

(* A dataset with rows of which none is mappable, merged.                  *)
C3_Witness ==
    /\ pc = "ready"
    /\ datasets # << >>
    /\ \A i \in DOMAIN datasets : ~datasets[i].is_mappable
    /\ Len(merged) = Len(world)

(* Years that occur in the normalized dataset.                             *)
DatasetYears == {datasets[i].year[1] : i \in {j \in DOMAIN datasets : datasets[j].year # << >>}}

HasMappableRow(iso, y) ==
    \E i \in DOMAIN datasets :
       datasets[i].is_mappable /\ datasets[i].code = iso /\ datasets[i].year = <<y>>

(* C4 as stated: for every world row g and every year y of the dataset the *)
(* merged table has a row of g for y: one with year y, or, when the        *)
(* dataset has no mappable row of g's code in y, one with missing year and *)
(* metric; so g has at least one row per dataset year.                     *)
C4_RowPerGeometryYear ==
    pc = "ready" =>
       \A g \in DOMAIN world :
          LET mine == {i \in DOMAIN merged : merged[i].ISO_A3_EH = world[g].ISO_A3_EH}
          IN  /\ Cardinality(mine) >= Cardinality(DatasetYears)
              /\ \A y \in DatasetYears :
                    IF HasMappableRow(world[g].ISO_A3_EH, y)
                    THEN \E i \in mine : merged[i].year = <<y>>
                    ELSE \E i \in mine : merged[i].year = << >> /\ merged[i].metric = << >>

(* C4 amended: a world row occurs once per mappable dataset row with its   *)
(* code, carrying that row's year and metric, and exactly once, with       *)
(* missing entity, code, year and metric, when no mappable row has its     *)
(* code.                                                                   *)
C4_RowPerMatch ==
    pc = "ready" =>
       \A g \in DOMAIN world :
          LET iso   == world[g].ISO_A3_EH
              mine  == {i \in DOMAIN merged : merged[i].ISO_A3_EH = iso}
              match == {k \in DOMAIN datasets :
                           datasets[k].is_mappable /\ datasets[k].code = iso}
          IN  IF match = {}
              THEN /\ Cardinality(mine) = 1
                   /\ \A i \in mine :
                         /\ merged[i].entity = << >> /\ merged[i].code = << >>
                         /\ merged[i].year = << >> /\ merged[i].metric = << >>
              ELSE /\ Cardinality(mine) = Cardinality(match)
                   /\ \A k \in match :
                         \E i \in mine :
                            /\ merged[i].entity = datasets[k].entity
                            /\ merged[i].year = datasets[k].year
                            /\ merged[i].metric = datasets[k].metric

(* A country with rows in two years next to a country without any row.     *)
C4_Witness ==
    /\ pc = "ready"
    /\ Cardinality(DatasetYears) = 2
    /\ \E g, h \in DOMAIN world :
          /\ Cardinality({i \in DOMAIN merged :
                             merged[i].ISO_A3_EH = world[g].ISO_A3_EH}) = 2
          /\ \E i \in DOMAIN merged :
                merged[i].ISO_A3_EH = world[h].ISO_A3_EH /\ merged[i].code = << >>

(* country_rows(key, y) as the positions of the merged table: the rows of  *)
(* year y that have a metric and a geometry.                               *)
CountryRows(y) ==
    {i \in DOMAIN merged :
        merged[i].year = <<y>> /\ merged[i].metric # << >> /\ merged[i].geometry # << >>}

Smaller(a, b) == IF a < b THEN a ELSE b

(* C5: top_bottom_countries over k country rows returns min(n, k) rows     *)
(* labelled Top n followed by min(n, k) rows labelled Bottom n, and when   *)
(* both groups are non-empty and 2n <= k no Top row has a smaller metric   *)
(* than a Bottom row.                                                      *)
C5_TopBottom ==
    answer.op = "top_bottom_countries" =>
       LET k   == Cardinality(CountryRows(answer.year))
           m   == Smaller(answer.n, k)
           out == answer.out
       IN  /\ Len(out) = 2 * m
           /\ Len(out) <= 2 * answer.n
           /\ \A i \in 1..m : out[i].group = <<"Top", answer.n>>
           /\ \A i \in (m + 1)..(2 * m) : out[i].group = <<"Bottom", answer.n>>
           /\ (m > 0 /\ 2 * answer.n <= k) =>
                 \A t \in 1..m, b \in (m + 1)..(2 * m) :
                    out[t].metric[1] >= out[b].metric[1]

(* One Top and one Bottom row with different metrics out of at least two   *)
(* country rows.                                                           *)
C5_Witness ==
    /\ answer.op = "top_bottom_countries"
    /\ answer.n = 1
    /\ Cardinality(CountryRows(answer.year)) >= 2
    /\ Len(answer.out) = 2
    /\ answer.out[1].metric[1] > answer.out[2].metric[1]

(* C6: the rank of a returned record is 1 plus the number of country rows  *)
(* of that year with a strictly greater metric; it is 1 for the maximum,   *)
(* lies between 1 and the number of country rows, and two countries with   *)
(* equal values get equal ranks.                                           *)
C6_Rank ==
    (answer.op = "country_details" /\ answer.out # << >>) =>
       LET d    == answer.out[1]
           rows == CountryRows(answer.year)
       IN  /\ d.rank = 1 + Cardinality({i \in rows : merged[i].metric[1] > d.value[1]})
           /\ (\A i \in rows : merged[i].metric[1] <= d.value[1]) => d.rank = 1
           /\ d.rank >= 1 /\ d.rank <= Cardinality(rows)
           /\ \A c \in QueryCodes :
                 LET o == CountryDetailsOf(datasets, merged, c, answer.year)
                 IN  (o # << >> /\ o[1].value = d.value) => o[1].rank = d.rank

(* A record of rank 2 whose value is shared by another country.            *)
C6_Witness ==
    /\ answer.op = "country_details"
    /\ answer.out # << >>
    /\ answer.out[1].rank = 2
    /\ \E i \in CountryRows(answer.year) :
          /\ merged[i].code # <<answer.iso_code>>
          /\ merged[i].metric = answer.out[1].value

(* Rows of the normalized table that country_timeseries selects for the    *)
(* year before the queried one.                                            *)
PriorRows(iso_code, year) ==
    {i \in DOMAIN datasets :
        /\ datasets[i].is_mappable
        /\ datasets[i].code = <<iso_code>>
        /\ datasets[i].year = <<year - 1>>}

(* C7: the delta of a returned record is None exactly when the time series *)
(* has no row for year - 1, and otherwise it is a number (not NaN) equal   *)
(* to the value minus the metric of the prior-year row.                    *)
C7_Delta ==
    (answer.op = "country_details" /\ answer.out # << >>) =>
       LET d     == answer.out[1]
           prior == PriorRows(answer.iso_code, answer.year)
       IN  /\ d.delta = << >> <=> prior = {}
           /\ prior # {} =>
                 /\ d.delta # << >>
                 /\ d.delta[1] # << >>
                 /\ \E i \in prior :
                       /\ datasets[i].metric # << >>
                       /\ d.delta[1][1] = d.value[1] - datasets[i].metric[1]

(* C8: country_details returns None exactly when no country row of the     *)
(* year carries the code, and otherwise a record whose value is the metric *)
(* of the first country row with that code.                                *)
C8_NoRecord ==
    answer.op = "country_details" =>
       LET hits == {i \in CountryRows(answer.year) : merged[i].code = <<answer.iso_code>>}
       IN  /\ answer.out = << >> <=> hits = {}
           /\ hits # {} =>
                 /\ answer.out[1].value = merged[MinOf(hits)].metric
                 /\ answer.out[1].value # << >>
                 /\ answer.out[1].entity = merged[MinOf(hits)].entity

(* None for a country that has a row of that year in the normalized table  *)
(* (its metric or its geometry is missing, or no world row has its code).  *)
C8_Witness ==
    /\ answer.op = "country_details"
    /\ answer.out = << >>
    /\ \E i \in DOMAIN datasets :
          /\ datasets[i].is_mappable
          /\ datasets[i].code = <<answer.iso_code>>
          /\ datasets[i].year = <<answer.year>>
          /\ datasets[i].metric # << >>

(* Three-way comparison of two cells of a sort key, missing cells last.    *)
TextCmp(a, b) ==
    IF a = b THEN 0
    ELSE IF a = << >> THEN 1
    ELSE IF b = << >> THEN -1
    ELSE IF CharsLess(Chars(a[1]), Chars(b[1])) THEN -1 ELSE 1

YearCmp(a, b) ==
    IF a = b THEN 0
    ELSE IF a = << >> THEN 1
    ELSE IF b = << >> THEN -1
    ELSE IF a[1] < b[1] THEN -1 ELSE 1

FlagCmp(a, b) == IF a = b THEN 0 ELSE IF b THEN -1 ELSE 1

(* a does not sort after b by (is_aggregate, code, entity, year).          *)
InSortOrder(a, b) ==
    LET cmp == <<FlagCmp(a.is_aggregate, b.is_aggregate),
                 TextCmp(a.code, b.code),
                 TextCmp(a.entity, b.entity),
                 YearCmp(a.year, b.year)>>
        diff == {k \in 1..4 : cmp[k] # 0}
    IN  diff = {} \/ cmp[MinOf(diff)] = -1

(* C9: the normalized table holds the first-occurrence rows of the raw     *)
(* input ordered by (is_aggregate, code, entity, year) with missing cells  *)
(* last, indexed from its first position without gaps, and preprocessing   *)
(* leaves the raw table as it was.                                         *)
C9_SortedInputKept ==
    /\ [](pc = "load_map" =>
            /\ \A i, j \in DOMAIN datasets :
                  i < j => InSortOrder(datasets[i], datasets[j])
            /\ DOMAIN datasets = 1..Cardinality({CoercedKey(raw.rows[k]) : k \in DOMAIN raw.rows})
            /\ \A k \in DOMAIN raw.rows :
                  \E i \in DOMAIN datasets :
                     <<datasets[i].entity, datasets[i].code, datasets[i].year>>
                     = CoercedKey(raw.rows[k]))
    /\ [][raw' = raw]_vars

(* Two rows that left preprocessing in the reverse of their raw order, the *)
(* row without a code last.                                                *)
C9_Witness ==
    /\ pc = "load_map"
    /\ Len(raw.rows) = 2
    /\ Len(datasets) = 2
    /\ raw.rows[1].code = << >>
    /\ datasets[2].code = << >>
    /\ datasets[1].code # << >>
    /\ datasets[1].is_aggregate

(* C10: available_years is strictly ascending and holds a year exactly     *)
(* when some merged row of that year has a metric and a geometry; it is    *)
(* empty when every metric is missing.                                     *)
C10_AvailableYears ==
    answer.op = "available_years" =>
       LET out    == answer.out
           listed == {out[i] : i \in DOMAIN out}
           years  == listed \cup QueryYears
                     \cup {merged[i].year[1] : i \in {j \in DOMAIN merged : merged[j].year # << >>}}
       IN  /\ \A i \in 1..(Len(out) - 1) : out[i] < out[i + 1]
           /\ \A y \in years : y \in listed <=> CountryRows(y) # {}
           /\ (\A i \in DOMAIN datasets : datasets[i].metric = << >>) => out = << >>

(* An answer that lists one year and leaves out another year of the merged *)
(* table, whose rows lack a metric or a geometry.                          *)
C10_Witness ==
    /\ answer.op = "available_years"
    /\ Len(answer.out) = 1
    /\ \E i \in DOMAIN merged :
          merged[i].year # << >> /\ merged[i].year # <<answer.out[1]>>

(* C11: preprocessing fails with a ValueError exactly when a base column   *)
(* is missing (the error then lists exactly the missing base columns, also *)
(* when the metric candidates are not one) or when the columns outside     *)
(* KNOWN_NON_METRIC are not exactly one; every other table is normalized.  *)
C11_SchemaErrors ==
    pc # "preprocess" =>
       LET lacking == {"entity", "code", "year"} \ raw.columns
           others  == raw.columns \ {"entity", "code", "year", "is_aggregate", "is_mappable"}
       IN  /\ error.type = "ValueError" <=> (lacking # {} \/ Cardinality(others) # 1)
           /\ lacking # {} => error.detail = lacking
           /\ (lacking = {} /\ Cardinality(others) = 1) =>
                 (pc = "load_map" /\ error.type = "none")

(* The year a raw cell stands for: the integer it parses to, else missing. *)
ExpectedYear(cell) ==
    LET n == ToNumeric(cell)
    IN  IF n = << >> THEN << >>
        ELSE IF n[1] % 10 # 0 THEN << >>
        ELSE <<n[1] \div 10>>

(* C12: with a valid header preprocessing does not fail on the content of  *)
(* year or metric cells: every raw row is retained, its year missing when  *)
(* the cell is no integer and its metric missing when the cell is no       *)
(* number.                                                                 *)
C12_CellsNeverFatal ==
    (/\ pc # "preprocess"
     /\ {"entity", "code", "year"} \subseteq raw.columns
     /\ Cardinality(raw.columns \ {"entity", "code", "year", "is_aggregate", "is_mappable"}) = 1) =>
       /\ pc = "load_map"
       /\ \A k \in DOMAIN raw.rows :
             \E i \in DOMAIN datasets :
                /\ datasets[i].entity = raw.rows[k].entity
                /\ datasets[i].code = raw.rows[k].code
                /\ datasets[i].year = ExpectedYear(raw.rows[k].year)

(* C14: country_timeseries returns exactly the rows of the normalized      *)
(* table that are mappable and carry the requested code, in ascending year *)
(* order (missing years last), whether or not a world row has that code,   *)
(* and never an aggregate row.                                             *)
C14_Timeseries ==
    answer.op = "country_timeseries" =>
       LET out == answer.out
           sel == {i \in DOMAIN datasets :
                      datasets[i].is_mappable /\ datasets[i].code = <<answer.iso_code>>}
       IN  /\ Len(out) = Cardinality(sel)
           /\ \A i \in sel : \E p \in DOMAIN out : out[p] = datasets[i]
           /\ \A p, q \in DOMAIN out :
                 p < q => YearCmp(out[p].year, out[q].year) # 1
           /\ \A p \in DOMAIN out : ~out[p].is_aggregate

(* Both years of a country whose code no row of the merged table carries.  *)
C14_Witness ==
    /\ answer.op = "country_timeseries"
    /\ Len(answer.out) = 2
    /\ answer.out[1].year = <<2019>>
    /\ answer.out[2].year = <<2020>>
    /\ \A i \in DOMAIN merged : merged[i].code # <<answer.iso_code>>
    /\ \A y \in QueryYears : \A i \in CountryRows(y) : merged[i].ISO_A3_EH # <<answer.iso_code>>

(* C16: when the year has at least 2n country rows, no country row is in   *)
(* both the Top n and the Bottom n group.                                  *)
C16_GroupsDisjoint ==
    (/\ answer.op = "top_bottom_countries"
     /\ Cardinality(CountryRows(answer.year)) >= 2 * answer.n) =>
       \A t, b \in DOMAIN answer.out :
          (answer.out[t].group[1] = "Top" /\ answer.out[b].group[1] = "Bottom") =>
             <<answer.out[t].entity, answer.out[t].code>>
             # <<answer.out[b].entity, answer.out[b].code>>

(* C13: a fetch of a resource whose cache file exists makes no request and *)
(* leaves the file as it is; a request is made only for a resource whose   *)
(* file is absent; after a successful construction every '{key}.csv' and   *)
(* the map archive exist.                                                  *)
C13_CacheHit ==
    /\ [](phase = "ready" => \A f \in Files : cache[f].exists)
    /\ [][\A f \in Files :
             /\ cache[f].exists => (f \notin requested' \ requested /\ cache'[f] = cache[f])
             /\ f \in requested' \ requested => ~cache[f].exists]_vars

(* A construction that succeeded without a single request: every fetch    *)
(* was served from the directory.                                          *)
C13_Witness ==
    /\ phase = "ready"
    /\ requested = {}
    /\ \A f \in Files : cache[f].exists

(* C15: an instance is available to queries only after fetch, normalize    *)
(* and join have all completed for every dataset of the registry; a fetch  *)
(* or schema failure leaves no instance, so no query is served by one that *)
(* holds a subset of the datasets.                                         *)
C15_AllOrNothing ==
    /\ phase = "ready" =>
          (obj.datasets = Keys /\ obj.world /\ obj.merged = Keys)
    /\ queried # "none" => phase = "ready"
    /\ failure # "none" => (phase = "failed" /\ queried = "none")

(* A construction aborted by one rejected header among accepted ones.      *)
C15_Witness ==
    /\ phase = "failed"
    /\ failure = "ValueError"
    /\ \E k \in DOMAIN raw_datasets : HeaderAccepted(raw_datasets[k])
    /\ \E k \in DOMAIN raw_datasets : ~HeaderAccepted(raw_datasets[k])

(* C17: every file present in the download directory holds a complete      *)
(* response body.                                                          *)
C17_CompleteFiles ==
    \A f \in Files : cache[f].exists => cache[f].body # << >>

====
